---- MODULE Spec2Model ----
(***************************************************************************)
(* The search-to-forecast pipeline of the weather widget, as implemented   *)
(* by the three component drafts of the repository:                        *)
(*   "WeatherPage"  src/.history/src/components/WeatherPage_20251127155010 *)
(*   "App"          src/.history/src/api/openmeteo_20251127123811.ts       *)
(*   "Suggestions"  src/unnamed/part_000 (WeatherAppWithSuggestions)       *)
(* One behaviour of the model is one mounted component of one draft.       *)
(*                                                                         *)
(* Texts are sequences of one-character strings, so that length, split and *)
(* join are computed as the code computes them.  JSON values that a state  *)
(* field may hold are records tagged with their kind.                      *)
(***************************************************************************)
EXTENDS Integers, Sequences, FiniteSets, TLC

VARIABLES
    draft,          \* which component draft is mounted
    apiKey,         \* import.meta.env.VITE_LOCATIONIQ_KEY is set
    geoSupported,   \* navigator.geolocation exists
    mounted,        \* the component has not been torn down
    arg,            \* the argument of a helper function under test
    result,         \* what the helper function returned for arg
    query,          \* useState('') : the input's text
    suggestions,    \* useState([]) : the last applied autocomplete payload
    showDropdown,   \* useState(false) (showSuggestions in part_000)
    loading,        \* useState(false)
    searching,      \* useState(false) (searchingLocation in App)
    weather,        \* useState(null)
    selectedCity,   \* useState('') (WeatherPage, App)
    selectedLocation, \* useState(null) (part_000)
    error,          \* useState('')
    geoLoading,     \* useState(false)
    debounceRef,    \* useRef(null).current : id of the last timer set, 0 = none
    timers,         \* the host's pending setTimeout callbacks
    quiet,          \* ms since the last query update, capped at DebounceMs
    burst,          \* observation: debounce callbacks run in the current burst
    searches,       \* autocomplete requests in flight, in issue order
    fetches,        \* forecast requests in flight, in issue order
    geo,            \* the use-my-location call: idle, locating or reverse
    inputs          \* number of user events so far (bounded by MaxInputs)

hostVars == <<draft, apiKey, geoSupported>>
helperVars == <<arg, result>>
envVars == <<hostVars, mounted, helperVars>>
timerVars == <<debounceRef, timers, quiet, burst>>
searchVars == <<suggestions, showDropdown, searching, searches>>
forecastVars == <<loading, weather, selectedCity, selectedLocation, fetches>>
geoVars == <<geoLoading, geo>>

vars == <<envVars, query, error, timerVars, searchVars, forecastVars, geoVars, inputs>>

----------------------------------------------------------------------------
(* Bounds of the model *)

MaxInFlight == 2
MaxFetches == 2
TickMs == 150
MaxBurst == 2
MaxInputs == 3

(* Program constants *)

DebounceMs == 300
MinQueryLen == 2

----------------------------------------------------------------------------
(* Texts *)

Ulm == <<"U", "l", "m">>
UlmDE == <<"U", "l", "m", ",", " ", "D", "E">>
DE == <<"D", "E">>
Y == <<"Y">>
YFR == <<"Y", ",", " ", "F", "R">>
FR == <<"F", "R">>
YourLocation == <<"Y", "o", "u", "r", " ", "L", "o", "c", "a", "t", "i", "o", "n">>

TypedTexts == { <<>>, <<"a", "b">>, <<" ", "a">> }

Min(a, b) == IF a < b THEN a ELSE b
Max(a, b) == IF a < b THEN b ELSE a

\* s.split(',')[0]
FirstSegment(s) ==
    LET commas == {i \in DOMAIN s : s[i] = ","}
    IN IF commas = {} THEN s
       ELSE SubSeq(s, 1, (CHOOSE i \in commas : \A j \in commas : i <= j) - 1)

\* a || b on texts: the empty text and undefined are falsy
OrElse(a, b) == IF a # <<>> THEN a ELSE b

\* obj.f, with undefined read as the empty text
Field(obj, f) == IF f \in DOMAIN obj THEN obj[f] ELSE <<>>

Digits == <<"0", "1", "2", "3", "4", "5", "6", "7", "8", "9">>
IsDigit(c) == \E d \in DOMAIN Digits : Digits[d] = c
DigitValue(c) == (CHOOSE d \in DOMAIN Digits : Digits[d] = c) - 1

\* parseFloat(s) on the whole-degree decimal strings of the model: the value
\* of the longest prefix of digits
RECURSIVE ParseDigits(_, _)
ParseDigits(s, acc) ==
    IF s = <<>> \/ ~IsDigit(Head(s)) THEN acc
    ELSE ParseDigits(Tail(s), acc * 10 + DigitValue(Head(s)))
ParseFloat(s) == ParseDigits(s, 0)

\* n.toString() for a natural number
RECURSIVE NumToString(_)
NumToString(n) ==
    IF n < 10 THEN <<Digits[n + 1]>>
    ELSE NumToString(n \div 10) \o <<Digits[(n % 10) + 1]>>

\* parts.join(", ")
RECURSIVE Join(_)
Join(parts) ==
    IF parts = <<>> THEN <<>>
    ELSE IF Len(parts) = 1 THEN parts[1]
    ELSE parts[1] \o <<",", " ">> \o Join(Tail(parts))

----------------------------------------------------------------------------
(* JSON payloads *)

NULL == [kind |-> "null"]
List(items) == [kind |-> "array", items |-> items]
GeocodeErrorBody == [kind |-> "object", error |-> "Unable to geocode"]
ForecastErrorBody == [kind |-> "object", error |-> TRUE]

\* `suggestions.length > 0 && ...` : the entries the dropdown can render
Items(v) == IF v.kind = "array" THEN v.items ELSE <<>>

LocUlm == [place_id |-> "1", display_name |-> UlmDE, lat |-> <<"4", "8">>,
           lon |-> <<"9">>, address |-> [city |-> Ulm, country |-> DE]]
LocY == [place_id |-> "2", display_name |-> YFR, lat |-> <<"5", "0">>,
         lon |-> <<"2">>, address |-> [village |-> Y, country |-> FR]]

\* The geocoding provider's answer to /autocomplete?q=<q>&limit=6
SearchResults(q) ==
    IF q = <<"a", "b">> THEN <<LocUlm, LocY>>
    ELSE IF q = <<" ", "a">> THEN <<LocY>>
    ELSE IF q = Ulm THEN <<LocUlm>>
    ELSE <<>>

\* The weather provider's answer to /forecast?latitude=<lat>&longitude=<lon>
Snapshot(lat, lon) ==
    [kind |-> "weather", latitude |-> lat, longitude |-> lon,
     current |-> [temperature_2m |-> 18, weather_code |-> 3]]

\* The host's position fix, and the geocoding provider's answers to /reverse
Position == [latitude |-> 48, longitude |-> 9]
ReverseAnswers ==
    { [display_name |-> UlmDE, address |-> [city |-> Ulm, country |-> DE]],
      [display_name |-> UlmDE] }

HttpOutcomes == {"ok", "status", "network", "malformed"}

\* locatioiq.ts sends `key=${API_KEY}` whether or not the key is set; the
\* provider answers a request without a valid key with an error status
GeocoderOutcomes == IF apiKey THEN HttpOutcomes ELSE HttpOutcomes \ {"ok"}
PositionErrorCodes == {1, 2, 3}
PERMISSION_DENIED == 1

----------------------------------------------------------------------------
(* The debounce effect, useEffect(..., [query]): the same in the three drafts *)

BurstOver == quiet >= DebounceMs /\ timers = {}

\* if (query.length < 2) { setSuggestions([]); setShowDropdown(false); return; }
BelowThreshold(q) == Len(q) < MinQueryLen

\* the effect without its clearTimeout line: the earlier timer stays
ClearTimeoutSkipped(ts, id) == ts

\* if (debounceRef.current) clearTimeout(debounceRef.current);
ClearTimeout(ts, id) == {t \in ts : t.id # id}

\* debounceRef.current = setTimeout(callback, 300), the callback closing over q
SetTimeout(ts, q) ==
    LET id == CHOOSE n \in 1..(Cardinality(ts) + 1) : \A t \in ts : t.id # n
    IN [id |-> id, text |-> q, remaining |-> DebounceMs]

\* setQuery(q) followed by the effect run that the change of query causes.
\* The effect's state updates are applied after those of the handler that set
\* the query: the handler passes the values it has set as s and sh.
SetQuery(q, s, sh) ==
    /\ query' = q
    /\ IF q = query
       THEN /\ UNCHANGED timerVars
            /\ suggestions' = s
            /\ showDropdown' = sh
       ELSE /\ quiet' = 0
            /\ burst' = IF BurstOver \/ ~burst.started
                        THEN [started |-> TRUE, updates |-> 1,
                              allAbove |-> ~BelowThreshold(q), emitted |-> <<>>]
                        ELSE [burst EXCEPT !.updates = Min(@ + 1, MaxBurst),
                                           !.allAbove = @ /\ ~BelowThreshold(q)]
            /\ IF BelowThreshold(q)
               THEN /\ suggestions' = List(<<>>)
                    /\ showDropdown' = FALSE
                    /\ UNCHANGED <<timers, debounceRef>>
               ELSE /\ suggestions' = s
                    /\ showDropdown' = sh
                    /\ LET kept == ClearTimeout(timers, debounceRef)
                           new == SetTimeout(kept, q)
                       IN /\ timers' = kept \cup {new}
                          /\ debounceRef' = new.id

\* the user can only act on a mounted component
UserInput ==
    /\ mounted
    /\ inputs < MaxInputs
    /\ inputs' = inputs + 1

\* onChange={(e) => setQuery(e.target.value)}
Type(q) ==
    /\ UserInput
    /\ q # query
    /\ SetQuery(q, suggestions, showDropdown)
    /\ UNCHANGED <<envVars, error, searching, searches, forecastVars, geoVars>>

\* onFocus={() => suggestions.length > 0 && setShowDropdown(true)}; the input
\* of App has no onFocus
Focus ==
    /\ draft # "App"
    /\ UserInput
    /\ Len(Items(suggestions)) > 0
    /\ ~showDropdown
    /\ showDropdown' = TRUE
    /\ UNCHANGED <<envVars, query, error, timerVars, suggestions, searching,
                   searches, forecastVars, geoVars>>

\* the document's mousedown handler: a click outside the dropdown
ClickOutside ==
    /\ UserInput
    /\ showDropdown
    /\ showDropdown' = FALSE
    /\ UNCHANGED <<envVars, query, error, timerVars, suggestions, searching,
                   searches, forecastVars, geoVars>>

\* The component is torn down.  The debounce effect returns no cleanup
\* function, so its timer stays with the host; requests in flight and the
\* geolocation call are not aborted either.  Only the mousedown listener is
\* removed.  From then on the state variables record what the callbacks pass
\* to the state setters.  The user leaving the page is one of the user's events.
Unmount ==
    /\ UserInput
    /\ mounted' = FALSE
    /\ UNCHANGED <<hostVars, helperVars, query, error, timerVars, searchVars,
                   forecastVars, geoVars>>

\* Time passes; a timer that is due runs before time passes further.
Tick ==
    /\ \A t \in timers : t.remaining > 0
    /\ quiet < DebounceMs
    /\ quiet' = Min(DebounceMs, quiet + TickMs)
    /\ timers' = {[t EXCEPT !.remaining = Max(0, t.remaining - TickMs)] : t \in timers}
    /\ UNCHANGED <<envVars, query, error, debounceRef, burst, searchVars,
                   forecastVars, geoVars, inputs>>

\* the debounce callback of timer t starts to run
Fire(t) ==
    /\ t \in timers
    /\ t.remaining = 0
    /\ timers' = timers \ {t}
    /\ burst' = [burst EXCEPT !.emitted =
                    IF Len(@) < MaxBurst THEN Append(@, t.text) ELSE @]
    /\ UNCHANGED <<debounceRef, quiet>>

\* a request joins those in flight and becomes the latest issued
Issue(reqs, r) ==
    Append([i \in DOMAIN reqs |-> [reqs[i] EXCEPT !.latest = FALSE]],
           [r EXCEPT !.latest = TRUE])

\* a request leaves those in flight
Settle(reqs, i) ==
    [j \in 1..(Len(reqs) - 1) |-> IF j < i THEN reqs[j] ELSE reqs[j + 1]]

SearchRequest(q) == [text |-> q, latest |-> TRUE]
ForecastRequest(lat, lon, label, awaited) ==
    [lat |-> lat, lon |-> lon, label |-> label, awaited |-> awaited, latest |-> TRUE]

----------------------------------------------------------------------------
(* WeatherPage (WeatherPage_20251127155010.tsx) *)

\* the setTimeout callback up to `await searchLocations(query)`
WeatherPageSearchStart(t) ==
    /\ draft = "WeatherPage"
    /\ Len(searches) < MaxInFlight
    /\ Fire(t)
    /\ searching' = TRUE
    /\ error' = ""
    /\ searches' = Issue(searches, SearchRequest(t.text))
    /\ UNCHANGED <<envVars, query, suggestions, showDropdown, forecastVars,
                   geoVars, inputs>>

\* WeatherPageSearchSettle with a catch that also resets the weather view
WeatherPageSearchSettleResetsWeather(i, outcome) ==
    /\ draft = "WeatherPage"
    /\ i \in DOMAIN searches
    /\ searches' = Settle(searches, i)
    /\ IF outcome = "ok"
       THEN /\ suggestions' = List(SearchResults(searches[i].text))
            /\ showDropdown' = TRUE
            /\ UNCHANGED <<error, weather, selectedCity>>
       ELSE /\ error' = "Location search failed"
            /\ suggestions' = List(<<>>)
            /\ weather' = NULL
            /\ selectedCity' = <<>>
            /\ UNCHANGED showDropdown
    /\ searching' = FALSE
    /\ UNCHANGED <<envVars, query, timerVars, loading, selectedLocation, fetches,
                   geoVars, inputs>>

\* the rest of the callback, once searchLocations(query) settles
WeatherPageSearchSettle(i, outcome) ==
    /\ draft = "WeatherPage"
    /\ i \in DOMAIN searches
    /\ searches' = Settle(searches, i)
    /\ IF outcome = "ok"
       THEN /\ suggestions' = List(SearchResults(searches[i].text))
            /\ showDropdown' = TRUE
            /\ UNCHANGED error
       ELSE /\ error' = "Location search failed"
            /\ suggestions' = List(<<>>)
            /\ UNCHANGED showDropdown
    /\ searching' = FALSE
    /\ UNCHANGED <<envVars, query, timerVars, forecastVars, geoVars, inputs>>

\* fetchWeatherData(lat, lon, cityName) up to `await getWeather(...)`;
\* getWeather sends lat.toString() of the parsed number
WeatherPageFetchStart(lat, lon, cityName) ==
    /\ Len(fetches) < MaxFetches
    /\ loading' = TRUE
    /\ error' = ""
    /\ fetches' = Issue(fetches,
                        ForecastRequest(NumToString(ParseFloat(lat)),
                                        NumToString(ParseFloat(lon)), cityName, FALSE))
    /\ UNCHANGED <<weather, selectedCity, selectedLocation>>

\* WeatherPageFetchSettle with a catch that sends the failed request again
WeatherPageFetchSettleRetries(i, outcome) ==
    /\ draft = "WeatherPage"
    /\ i \in DOMAIN fetches
    /\ IF outcome = "ok"
       THEN /\ fetches' = Settle(fetches, i)
            /\ weather' = Snapshot(fetches[i].lat, fetches[i].lon)
            /\ selectedCity' = fetches[i].label
            /\ showDropdown' = FALSE
            /\ loading' = FALSE
            /\ UNCHANGED error
       ELSE /\ fetches' = Issue(Settle(fetches, i), fetches[i])
            /\ error' = "Failed to load weather data"
            /\ loading' = TRUE
            /\ UNCHANGED <<weather, selectedCity, showDropdown>>
    /\ UNCHANGED <<envVars, query, timerVars, suggestions, searching, searches,
                   selectedLocation, geoVars, inputs>>

\* WeatherPageFetchSettle with the label kept in a variable shared by the
\* calls: the label set is that of the fetch issued last
WeatherPageFetchSettleSharedLabel(i, outcome) ==
    /\ draft = "WeatherPage"
    /\ i \in DOMAIN fetches
    /\ fetches' = Settle(fetches, i)
    /\ IF outcome = "ok"
       THEN /\ weather' = Snapshot(fetches[i].lat, fetches[i].lon)
            /\ selectedCity' = fetches[Len(fetches)].label
            /\ showDropdown' = FALSE
            /\ UNCHANGED error
       ELSE /\ error' = "Failed to load weather data"
            /\ UNCHANGED <<weather, selectedCity, showDropdown>>
    /\ loading' = FALSE
    /\ UNCHANGED <<envVars, query, timerVars, suggestions, searching, searches,
                   selectedLocation, geoVars, inputs>>

\* WeatherPageFetchSettle with setLoading(false) at the end of the try
\* block, not in a finally: a failed fetch leaves loading set
WeatherPageFetchSettleNoFinally(i, outcome) ==
    /\ draft = "WeatherPage"
    /\ i \in DOMAIN fetches
    /\ fetches' = Settle(fetches, i)
    /\ IF outcome = "ok"
       THEN /\ weather' = Snapshot(fetches[i].lat, fetches[i].lon)
            /\ selectedCity' = fetches[i].label
            /\ showDropdown' = FALSE
            /\ loading' = FALSE
            /\ UNCHANGED error
       ELSE /\ error' = "Failed to load weather data"
            /\ UNCHANGED <<weather, selectedCity, showDropdown, loading>>
    /\ UNCHANGED <<envVars, query, timerVars, suggestions, searching, searches,
                   selectedLocation, geoVars, inputs>>

\* the rest of fetchWeatherData, once getWeather settles
WeatherPageFetchSettle(i, outcome) ==
    /\ draft = "WeatherPage"
    /\ i \in DOMAIN fetches
    /\ fetches' = Settle(fetches, i)
    /\ IF outcome = "ok"
       THEN /\ weather' = Snapshot(fetches[i].lat, fetches[i].lon)
            /\ selectedCity' = fetches[i].label
            /\ showDropdown' = FALSE
            /\ UNCHANGED error
       ELSE /\ error' = "Failed to load weather data"
            /\ UNCHANGED <<weather, selectedCity, showDropdown>>
    /\ loading' = FALSE
    /\ UNCHANGED <<envVars, query, timerVars, suggestions, searching, searches,
                   selectedLocation, geoVars, inputs>>

\* handleSelect(loc): a click on an entry of the rendered dropdown
WeatherPageSelect(loc) ==
    /\ draft = "WeatherPage"
    /\ UserInput
    /\ showDropdown
    /\ \E k \in DOMAIN Items(suggestions) : Items(suggestions)[k] = loc
    /\ SetQuery(FirstSegment(loc.display_name), suggestions, showDropdown)
    /\ WeatherPageFetchStart(loc.lat, loc.lon, loc.display_name)
    /\ UNCHANGED <<envVars, searching, searches, geoVars>>

\* handleUseMyLocation: the button is disabled while geoLoading
WeatherPageUseMyLocation ==
    /\ draft = "WeatherPage"
    /\ UserInput
    /\ ~geoLoading
    /\ IF ~geoSupported
       THEN /\ error' = "Geolocation not supported"
            /\ UNCHANGED geoVars
       ELSE /\ geoLoading' = TRUE
            /\ geo' = "locating"
            /\ UNCHANGED error
    /\ UNCHANGED <<envVars, query, timerVars, searchVars, forecastVars>>

\* getCurrentPosition's success callback up to `await reverseGeocode(...)`
WeatherPagePositionFound ==
    /\ draft = "WeatherPage"
    /\ geo = "locating"
    /\ geo' = "reverse"
    /\ UNCHANGED <<envVars, query, error, timerVars, searchVars, forecastVars,
                   geoLoading, inputs>>

\* WeatherPagePositionError without its setGeoLoading(false)
WeatherPagePositionErrorKeepsLoading(code) ==
    /\ draft = "WeatherPage"
    /\ geo = "locating"
    /\ error' = "Location access denied"
    /\ geo' = "idle"
    /\ UNCHANGED <<envVars, query, timerVars, searchVars, forecastVars, geoLoading,
                   inputs>>

\* getCurrentPosition's error callback
WeatherPagePositionError(code) ==
    /\ draft = "WeatherPage"
    /\ geo = "locating"
    /\ error' = "Location access denied"
    /\ geoLoading' = FALSE
    /\ geo' = "idle"
    /\ UNCHANGED <<envVars, query, timerVars, searchVars, forecastVars, inputs>>

\* WeatherPageReverseSettle with the fetch moved out of the try: it is made
\* with the placeholder label when the reverse lookup has failed
WeatherPageReverseSettleFetchesAnyway(outcome, data) ==
    /\ draft = "WeatherPage"
    /\ geo = "reverse"
    /\ IF outcome = "ok"
       THEN LET address == IF "address" \in DOMAIN data THEN data.address ELSE << >>
                name == OrElse(Field(address, "city"),
                               OrElse(Field(address, "town"),
                                      OrElse(Field(address, "village"), YourLocation)))
            IN /\ SetQuery(name, suggestions, showDropdown)
               /\ WeatherPageFetchStart(NumToString(Position.latitude),
                                        NumToString(Position.longitude),
                                        data.display_name)
       ELSE /\ WeatherPageFetchStart(NumToString(Position.latitude),
                                     NumToString(Position.longitude), YourLocation)
            /\ UNCHANGED <<query, timerVars, suggestions, showDropdown>>
    /\ geoLoading' = FALSE
    /\ geo' = "idle"
    /\ UNCHANGED <<envVars, searching, searches, inputs>>

\* the rest of the success callback, once reverseGeocode settles
WeatherPageReverseSettle(outcome, data) ==
    /\ draft = "WeatherPage"
    /\ geo = "reverse"
    /\ IF outcome = "ok"
       THEN LET address == IF "address" \in DOMAIN data THEN data.address ELSE << >>
                name == OrElse(Field(address, "city"),
                               OrElse(Field(address, "town"),
                                      OrElse(Field(address, "village"), YourLocation)))
            IN /\ SetQuery(name, suggestions, showDropdown)
               /\ WeatherPageFetchStart(NumToString(Position.latitude),
                                        NumToString(Position.longitude),
                                        data.display_name)
       ELSE /\ error' = "Could not detect city name"
            /\ UNCHANGED <<query, timerVars, suggestions, showDropdown, forecastVars>>
    /\ geoLoading' = FALSE
    /\ geo' = "idle"
    /\ UNCHANGED <<envVars, searching, searches, inputs>>

WeatherPageNext ==
    \/ \E t \in timers : WeatherPageSearchStart(t)
    \/ \E i \in DOMAIN searches, o \in GeocoderOutcomes : WeatherPageSearchSettle(i, o)
    \/ \E i \in DOMAIN fetches, o \in HttpOutcomes : WeatherPageFetchSettle(i, o)
    \/ \E loc \in {LocUlm, LocY} : WeatherPageSelect(loc)
    \/ WeatherPageUseMyLocation
    \/ WeatherPagePositionFound
    \/ \E code \in PositionErrorCodes : WeatherPagePositionError(code)
    \/ \E o \in GeocoderOutcomes, data \in ReverseAnswers :
          WeatherPageReverseSettle(o, data)

----------------------------------------------------------------------------
(* App (openmeteo_20251127123811.ts) *)

\* the setTimeout callback up to `await fetch(...autocomplete...)`; without
\* an API key it throws before the fetch and runs its catch and finally
AppSearchStart(t) ==
    /\ draft = "App"
    /\ Fire(t)
    /\ IF ~apiKey
       THEN /\ error' = "Failed to search locations. Please try again."
            /\ suggestions' = List(<<>>)
            /\ searching' = FALSE
            /\ UNCHANGED searches
       ELSE /\ Len(searches) < MaxInFlight
            /\ searching' = TRUE
            /\ error' = ""
            /\ searches' = Issue(searches, SearchRequest(t.text))
            /\ UNCHANGED suggestions
    /\ UNCHANGED <<envVars, query, showDropdown, forecastVars, geoVars, inputs>>

\* the rest of the callback, once the autocomplete fetch settles
AppSearchSettle(i, outcome) ==
    /\ draft = "App"
    /\ i \in DOMAIN searches
    /\ searches' = Settle(searches, i)
    /\ IF outcome = "ok"
       THEN /\ suggestions' = List(SearchResults(searches[i].text))
            /\ showDropdown' = TRUE
            /\ UNCHANGED error
       ELSE /\ error' = "Failed to search locations. Please try again."
            /\ suggestions' = List(<<>>)
            /\ UNCHANGED showDropdown
    /\ searching' = FALSE
    /\ UNCHANGED <<envVars, query, timerVars, forecastVars, geoVars, inputs>>

\* fetchWeather(lat, lon, cityName) up to `await fetch(...forecast...)`
AppFetchStart(lat, lon, cityName, awaited) ==
    /\ Len(fetches) < MaxFetches
    /\ loading' = TRUE
    /\ error' = ""
    /\ weather' = NULL
    /\ fetches' = Issue(fetches, ForecastRequest(lat, lon, cityName, awaited))
    /\ UNCHANGED <<selectedCity, selectedLocation>>

\* the rest of fetchWeather, once the forecast fetch settles; a fetch that
\* handleUseMyLocation awaits then lets its finally run
AppFetchSettle(i, outcome) ==
    /\ draft = "App"
    /\ i \in DOMAIN fetches
    /\ fetches' = Settle(fetches, i)
    /\ IF outcome = "ok"
       THEN /\ weather' = Snapshot(fetches[i].lat, fetches[i].lon)
            /\ selectedCity' = fetches[i].label
            /\ showDropdown' = FALSE
            /\ UNCHANGED error
       ELSE /\ error' = "Failed to fetch weather data. Please try again."
            /\ UNCHANGED <<weather, selectedCity, showDropdown>>
    /\ loading' = FALSE
    /\ IF fetches[i].awaited
       THEN geoLoading' = FALSE /\ geo' = "idle"
       ELSE UNCHANGED geoVars
    /\ UNCHANGED <<envVars, query, timerVars, suggestions, searching, searches,
                   selectedLocation, inputs>>

\* handleLocationSelect(location)
AppSelect(loc) ==
    /\ draft = "App"
    /\ UserInput
    /\ showDropdown
    /\ \E k \in DOMAIN Items(suggestions) : Items(suggestions)[k] = loc
    /\ SetQuery(FirstSegment(loc.display_name), suggestions, showDropdown)
    /\ AppFetchStart(loc.lat, loc.lon, loc.display_name, FALSE)
    /\ UNCHANGED <<envVars, searching, searches, geoVars>>

\* handleUseMyLocation: the button is disabled while geoLoading
AppUseMyLocation ==
    /\ draft = "App"
    /\ UserInput
    /\ ~geoLoading
    /\ IF ~geoSupported
       THEN /\ error' = "Geolocation is not supported by your browser"
            /\ UNCHANGED geoVars
       ELSE /\ geoLoading' = TRUE
            /\ error' = ""
            /\ geo' = "locating"
    /\ UNCHANGED <<envVars, query, timerVars, searchVars, forecastVars>>

\* getCurrentPosition's success callback up to `await fetch(...reverse...)`
AppPositionFound ==
    /\ draft = "App"
    /\ geo = "locating"
    /\ IF ~apiKey
       THEN /\ error' = "Failed to get location name. Please try searching manually."
            /\ geoLoading' = FALSE
            /\ geo' = "idle"
       ELSE /\ geo' = "reverse"
            /\ UNCHANGED <<error, geoLoading>>
    /\ UNCHANGED <<envVars, query, timerVars, searchVars, forecastVars, inputs>>

\* getCurrentPosition's error callback
AppPositionError(code) ==
    /\ draft = "App"
    /\ geo = "locating"
    /\ geoLoading' = FALSE
    /\ geo' = "idle"
    /\ error' = IF code = PERMISSION_DENIED
                THEN "Location access denied. Please enable location permissions."
                ELSE "Failed to get your location. Please try searching manually."
    /\ UNCHANGED <<envVars, query, timerVars, searchVars, forecastVars, inputs>>

\* the rest of the success callback, once the reverse fetch settles;
\* data.address.city throws when the answer has no address
AppReverseSettle(outcome, data) ==
    /\ draft = "App"
    /\ geo = "reverse"
    /\ IF outcome = "ok" /\ "address" \in DOMAIN data
       THEN LET cityName ==
                    OrElse(Field(data.address, "city"),
                           OrElse(Field(data.address, "town"),
                                  OrElse(Field(data.address, "village"),
                                         FirstSegment(data.display_name))))
            IN /\ SetQuery(cityName, suggestions, showDropdown)
               /\ AppFetchStart(NumToString(Position.latitude),
                                NumToString(Position.longitude),
                                data.display_name, TRUE)
               /\ geo' = "forecast"
               /\ UNCHANGED geoLoading
       ELSE /\ error' = "Failed to get location name. Please try searching manually."
            /\ geoLoading' = FALSE
            /\ geo' = "idle"
            /\ UNCHANGED <<query, timerVars, suggestions, showDropdown, forecastVars>>
    /\ UNCHANGED <<envVars, searching, searches, inputs>>

AppNext ==
    \/ \E t \in timers : AppSearchStart(t)
    \/ \E i \in DOMAIN searches, o \in HttpOutcomes : AppSearchSettle(i, o)
    \/ \E i \in DOMAIN fetches, o \in HttpOutcomes : AppFetchSettle(i, o)
    \/ \E loc \in {LocUlm, LocY} : AppSelect(loc)
    \/ AppUseMyLocation
    \/ AppPositionFound
    \/ \E code \in PositionErrorCodes : AppPositionError(code)
    \/ \E o \in HttpOutcomes, data \in ReverseAnswers : AppReverseSettle(o, data)

----------------------------------------------------------------------------
(* WeatherAppWithSuggestions (part_000) *)

\* formatDisplayName(loc)
FormatDisplayName(loc) ==
    LET a == loc.address
        place == IF Field(a, "city") # <<>> THEN <<a.city>>
                 ELSE IF Field(a, "town") # <<>> THEN <<a.town>>
                 ELSE IF Field(a, "village") # <<>> THEN <<a.village>>
                 ELSE <<>>
        state == IF Field(a, "state") # <<>> THEN <<a.state>> ELSE <<>>
        country == IF Field(a, "country") # <<>> THEN <<a.country>> ELSE <<>>
    IN Join(place \o state \o country)

\* how a call of formatDisplayName(loc) ends: `a.city` throws a TypeError
\* when loc has no address
FormatDisplayNameResult(loc) ==
    IF "address" \in DOMAIN loc
    THEN [kind |-> "return", value |-> FormatDisplayName(loc)]
    ELSE [kind |-> "throw", value |-> <<>>]

\* the setTimeout callback up to `await fetch(...autocomplete...)`
SuggestionsSearchStart(t) ==
    /\ draft = "Suggestions"
    /\ Len(searches) < MaxInFlight
    /\ Fire(t)
    /\ searches' = Issue(searches, SearchRequest(t.text))
    /\ UNCHANGED <<envVars, query, error, suggestions, showDropdown, searching,
                   forecastVars, geoVars, inputs>>

\* the rest of the callback: res.json() of whatever answer came is applied,
\* its status is not looked at; a rejected fetch or json() is only logged
SuggestionsSearchSettle(i, outcome) ==
    /\ draft = "Suggestions"
    /\ i \in DOMAIN searches
    /\ searches' = Settle(searches, i)
    /\ IF outcome \in {"ok", "status"}
       THEN /\ suggestions' = IF outcome = "ok"
                              THEN List(SearchResults(searches[i].text))
                              ELSE GeocodeErrorBody
            /\ showDropdown' = TRUE
       ELSE UNCHANGED <<suggestions, showDropdown>>
    /\ UNCHANGED <<envVars, query, error, timerVars, searching, forecastVars,
                   geoVars, inputs>>

\* onClick={() => fetchWeather(loc)} up to `await fetch(...forecast...)`
SuggestionsSelect(loc) ==
    /\ draft = "Suggestions"
    /\ UserInput
    /\ showDropdown
    /\ \E k \in DOMAIN Items(suggestions) : Items(suggestions)[k] = loc
    /\ Len(fetches) < MaxFetches
    /\ loading' = TRUE
    /\ fetches' = Issue(fetches, ForecastRequest(loc.lat, loc.lon, loc, FALSE))
    /\ UNCHANGED <<envVars, query, error, timerVars, searchVars, weather,
                   selectedCity, selectedLocation, geoVars>>

\* the rest of fetchWeather: res.json() of whatever answer came is applied;
\* a rejected fetch or json() raises the alert
SuggestionsFetchSettle(i, outcome) ==
    /\ draft = "Suggestions"
    /\ i \in DOMAIN fetches
    /\ fetches' = Settle(fetches, i)
    /\ IF outcome \in {"ok", "status"}
       THEN /\ weather' = IF outcome = "ok"
                          THEN Snapshot(fetches[i].lat, fetches[i].lon)
                          ELSE ForecastErrorBody
            /\ selectedLocation' = fetches[i].label
            /\ SetQuery(FormatDisplayName(fetches[i].label), suggestions, FALSE)
       ELSE UNCHANGED <<weather, selectedLocation, query, timerVars, suggestions,
                        showDropdown>>
    /\ loading' = FALSE
    /\ UNCHANGED <<envVars, error, searching, searches, selectedCity, geoVars, inputs>>

SuggestionsNext ==
    \/ \E t \in timers : SuggestionsSearchStart(t)
    \/ \E i \in DOMAIN searches, o \in HttpOutcomes : SuggestionsSearchSettle(i, o)
    \/ \E loc \in {LocUlm, LocY} : SuggestionsSelect(loc)
    \/ \E i \in DOMAIN fetches, o \in HttpOutcomes : SuggestionsFetchSettle(i, o)

----------------------------------------------------------------------------
\* the component right after it is mounted
Mount ==
    /\ draft \in {"WeatherPage", "App", "Suggestions"}
    /\ apiKey \in IF draft = "Suggestions" THEN {TRUE} ELSE BOOLEAN
    /\ geoSupported \in IF draft = "Suggestions" THEN {FALSE} ELSE BOOLEAN
    /\ mounted = TRUE
    /\ query = <<>>
    /\ suggestions = List(<<>>)
    /\ showDropdown = FALSE
    /\ loading = FALSE
    /\ searching = FALSE
    /\ weather = NULL
    /\ selectedCity = <<>>
    /\ selectedLocation = NULL
    /\ error = ""
    /\ geoLoading = FALSE
    /\ debounceRef = 0
    /\ timers = {}
    /\ quiet = DebounceMs
    /\ burst = [started |-> FALSE, updates |-> 0, allAbove |-> TRUE, emitted |-> <<>>]
    /\ searches = <<>>
    /\ fetches = <<>>
    /\ geo = "idle"
    /\ inputs = 0

Init ==
    /\ Mount
    /\ arg = NULL
    /\ result = NULL

Next ==
    \/ \E q \in TypedTexts : Type(q)
    \/ Focus
    \/ ClickOutside
    \/ Unmount
    \/ Tick
    \/ WeatherPageNext
    \/ AppNext
    \/ SuggestionsNext

Spec == Init /\ [][Next]_vars

----------------------------------------------------------------------------
(* Vocabulary of the properties *)

\* text.trim(): the text without its leading and trailing spaces
RECURSIVE TrimLeft(_)
TrimLeft(s) == IF s # <<>> /\ Head(s) = " " THEN TrimLeft(Tail(s)) ELSE s
RECURSIVE TrimRight(_)
TrimRight(s) ==
    IF s # <<>> /\ s[Len(s)] = " " THEN TrimRight(SubSeq(s, 1, Len(s) - 1)) ELSE s
Trim(s) == TrimRight(TrimLeft(s))

Failures == HttpOutcomes \ {"ok"}

\* a response arrives for a request that a later request has superseded, the
\* later one having settled already
LateSearchResponse ==
    /\ Len(searches') < Len(searches)
    /\ \A j \in DOMAIN searches : ~searches[j].latest
LateForecastResponse ==
    /\ Len(fetches') < Len(fetches)
    /\ \A j \in DOMAIN fetches : ~fetches[j].latest

\* the weather section is rendered: {weather && !loading && ...} in
\* WeatherPage and App, {weather && selectedLocation && ...} in part_000
WeatherShown ==
    IF draft = "Suggestions" THEN weather # NULL /\ selectedLocation # NULL
    ELSE weather # NULL /\ ~loading

HasErrorState == draft \in {"WeatherPage", "App"}

SearchFails ==
    \/ \E i \in DOMAIN searches, o \in Failures :
          \/ WeatherPageSearchSettle(i, o)
          \/ AppSearchSettle(i, o)
          \/ SuggestionsSearchSettle(i, o)
    \/ \E t \in timers : ~apiKey /\ AppSearchStart(t)

ForecastFails ==
    \E i \in DOMAIN fetches, o \in Failures :
        \/ WeatherPageFetchSettle(i, o)
        \/ AppFetchSettle(i, o)
        \/ SuggestionsFetchSettle(i, o)

----------------------------------------------------------------------------
(* C1: a response of a superseded autocomplete request (R1 arriving after  *)
(* the response of the later request R2) is dropped: it does not change    *)
(* the suggestion list.                                                    *)
C1_LateSearchResponseDropped ==
    [][LateSearchResponse => suggestions' = suggestions]_vars

(* C2: when two forecast fetches overlap and the later-issued one has      *)
(* settled, the response of the earlier-issued one is not applied: the     *)
(* snapshot and the selected-location label stay those left by the later.  *)
C2_LateForecastResponseDropped ==
    [][LateForecastResponse =>
          /\ weather' = weather
          /\ selectedCity' = selectedCity
          /\ selectedLocation' = selectedLocation]_vars

(* C3: for any burst of query updates, each arriving before the settle     *)
(* interval of the previous one has elapsed, exactly one debounce callback *)
(* runs once the burst is over, and it carries the text of the last        *)
(* update of the burst.                                                    *)
C3_OneEmissionPerBurst ==
    (burst.started /\ BurstOver) => burst.emitted = <<query>>

(* What the effect does guarantee: a burst all of whose updates are at or  *)
(* above the threshold ends with exactly one callback run, carrying the    *)
(* last text (every such update cancels the timer of the one before).      *)
CoalescingAboveThreshold ==
    (burst.started /\ BurstOver /\ burst.allAbove) => burst.emitted = <<query>>

CoalescingAboveThresholdReached ==
    /\ burst.started /\ BurstOver /\ burst.allAbove
    /\ burst.updates >= 2
    /\ burst.emitted = <<query>>

(* C4: while the query is below the threshold (from the update that took   *)
(* it there until the next update), no autocomplete request is issued.     *)
C4_NoRequestBelowThreshold ==
    [][(BelowThreshold(query) /\ query' = query) =>
          Len(searches') <= Len(searches)]_vars

(* C5: no autocomplete request carries a text whose trimmed length is      *)
(* below 2, and an update to such a text empties the suggestion list.      *)
C5_TrimmedThreshold ==
    [][/\ \A i \in DOMAIN searches' : Len(Trim(searches'[i].text)) >= MinQueryLen
       /\ (query' # query /\ Len(Trim(query')) < MinQueryLen)
              => suggestions' = List(<<>>)]_vars

(* C6: when a forecast fetch fails, the resulting state has the error      *)
(* condition set (where the draft has one), loading cleared and no weather *)
(* section displayed.                                                      *)
C6_ForecastFailureShowsNoWeather ==
    [][ForecastFails =>
          /\ HasErrorState => error' # ""
          /\ ~loading'
          /\ ~WeatherShown']_vars

(* C7: when an autocomplete request fails, an error is reported (where the *)
(* draft has an error state) and no suggestion is left to display.         *)
C7_SearchFailureClearsSuggestions ==
    [][SearchFails =>
          /\ HasErrorState => error' # ""
          /\ Items(suggestions') = <<>>]_vars

(* C8: whenever a forecast fetch is outstanding, the loading indicator is  *)
(* active.                                                                 *)
C8_LoadingWhileOutstanding ==
    Len(fetches) > 0 => loading

(* C9: right after a successful forecast response is applied, the snapshot *)
(* is that response, the label is the one passed to that fetch and the     *)
(* error condition is empty.                                               *)
C9_ForecastSuccessState ==
    [][\A i \in DOMAIN fetches :
          /\ (WeatherPageFetchSettle(i, "ok") \/ AppFetchSettle(i, "ok")) =>
                /\ weather' = Snapshot(fetches[i].lat, fetches[i].lon)
                /\ selectedCity' = fetches[i].label
                /\ error' = ""
          /\ SuggestionsFetchSettle(i, "ok") =>
                /\ weather' = Snapshot(fetches[i].lat, fetches[i].lon)
                /\ selectedLocation' = fetches[i].label
                /\ error' = ""]_vars

(* C10: a failure of an autocomplete request leaves the query text, the    *)
(* weather snapshot and the selected-location label as they were.          *)
C10_SearchFailureFrame ==
    [][SearchFails =>
          /\ query' = query
          /\ weather' = weather
          /\ selectedCity' = selectedCity
          /\ selectedLocation' = selectedLocation]_vars

C10_Witness ==
    /\ error \in {"Location search failed",
                  "Failed to search locations. Please try again."}
    /\ weather # NULL
    /\ query # <<>>

----------------------------------------------------------------------------
(* Vocabulary of the use-my-location path *)

DenialMessages ==
    {"Location access denied",
     "Location access denied. Please enable location permissions."}
UnsupportedMessages ==
    {"Geolocation not supported", "Geolocation is not supported by your browser"}
NetworkFailureMessages ==
    {"Location search failed", "Failed to load weather data",
     "Could not detect city name",
     "Failed to search locations. Please try again.",
     "Failed to fetch weather data. Please try again.",
     "Failed to get location name. Please try searching manually."}

\* a click on the button where the platform has no geolocation
UnsupportedClick ==
    ~geoSupported /\ (WeatherPageUseMyLocation \/ AppUseMyLocation)

\* the position request fails with the given GeolocationPositionError code
PositionFails(code) ==
    WeatherPagePositionError(code) \/ AppPositionError(code)

\* the step sends nothing to the geocoding or the weather provider
NoRequestIssued ==
    /\ Len(searches') <= Len(searches)
    /\ Len(fetches') <= Len(fetches)
    /\ geo' = "reverse" => geo = "reverse"

(* C11: on the use-my-location path, a permission denial and a platform    *)
(* without geolocation each set an error and send no HTTP request; the     *)
(* denial message differs from the non-support message and from every      *)
(* network-failure message, and a geolocation failure other than a         *)
(* permission denial does not produce the denial message.                  *)
C11_GeolocationErrorsDistinct ==
    [][/\ UnsupportedClick =>
              /\ error' \in UnsupportedMessages
              /\ NoRequestIssued
       /\ \A code \in PositionErrorCodes : PositionFails(code) =>
              /\ error' # ""
              /\ NoRequestIssued
              /\ code = PERMISSION_DENIED =>
                    /\ error' \in DenialMessages
                    /\ error' \notin UnsupportedMessages \cup NetworkFailureMessages
              /\ code # PERMISSION_DENIED => error' \notin DenialMessages]_vars

\* the reverse lookup answers with data and the callback goes on to the fetch
ReverseSucceeds(data) ==
    \/ WeatherPageReverseSettle("ok", data)
    \/ "address" \in DOMAIN data /\ AppReverseSettle("ok", data)

\* the label the use-my-location path is to derive from a reverse answer
DerivedLabel(data) ==
    LET address == IF "address" \in DOMAIN data THEN data.address ELSE << >>
    IN OrElse(Field(address, "city"),
              OrElse(Field(address, "town"),
                     OrElse(Field(address, "village"),
                            OrElse(FirstSegment(Field(data, "display_name")),
                                   YourLocation))))

(* C12: after a successful reverse lookup the forecast fetch is issued     *)
(* with the coordinates of the position fix and with the label derived     *)
(* from the reverse answer (city, else town, else village, else the first  *)
(* comma-delimited segment of the full label, else a placeholder); that    *)
(* label is the one the fetch sets as the selected-location label.         *)
C12_ReverseLabelPassedToFetch ==
    [][\A data \in ReverseAnswers : ReverseSucceeds(data) =>
          /\ Len(fetches') = Len(fetches) + 1
          /\ LET issued == fetches'[Len(fetches')]
             IN /\ issued.lat = NumToString(Position.latitude)
                /\ issued.lon = NumToString(Position.longitude)
                /\ issued.label = DerivedLabel(data)]_vars

----------------------------------------------------------------------------
(* C13: tearing the component down cancels the pending debounce timer, and *)
(* after the teardown no debounce callback runs: no timer leaves the       *)
(* host's pending set by firing and no autocomplete request is issued.     *)
C13_TimerCancelledOnTeardown ==
    [][/\ Unmount => timers' = {}
       /\ ~mounted =>
              /\ Cardinality(timers') >= Cardinality(timers)
              /\ Len(searches') <= Len(searches)]_vars

----------------------------------------------------------------------------
\* the reverse lookup of the use-my-location path fails: the request is
\* rejected or answered badly, App finds no address in the answer, or App
\* has no key to send it with
ReverseFails ==
    \/ \E o \in Failures, data \in ReverseAnswers :
          WeatherPageReverseSettle(o, data) \/ AppReverseSettle(o, data)
    \/ \E data \in ReverseAnswers :
          "address" \notin DOMAIN data /\ AppReverseSettle("ok", data)
    \/ ~apiKey /\ AppPositionFound

\* what the program still has to do without the user: timers to fire,
\* responses to receive, a position to obtain
Outstanding ==
    Cardinality(timers) + Len(searches) + Len(fetches)
        + (IF geo \in {"locating", "reverse"} THEN 1 ELSE 0)

\* a step that takes one operation of the failed kind off what is
\* outstanding, issues no request of that kind and schedules none
SearchWork == Cardinality(timers) + Len(searches)
ReverseWork == IF geo \in {"locating", "reverse"} THEN 1 ELSE 0

(* C14 as stated: once a request has failed, no request of its kind is     *)
(* issued before the user acts again; so right after the failure nothing   *)
(* may be pending that issues one by itself: no debounce timer after an    *)
(* autocomplete failure, no position or reverse lookup after a forecast    *)
(* failure.                                                                *)
C14_NoRequestAfterFailure ==
    [][/\ SearchFails => timers' = {}
       /\ ForecastFails => ReverseWork' = 0
       /\ ReverseFails => ReverseWork' = 0]_vars

(* C14, amended: nothing is retried.  The step in which an autocomplete,   *)
(* reverse or forecast request fails issues no request of that kind and    *)
(* schedules none, it only takes the failed operation off what is          *)
(* outstanding; and once nothing is outstanding, no request is issued and  *)
(* no timer set until the user acts.                                       *)
C14_NoAutomaticRetry ==
    [][/\ SearchFails =>
              /\ timers' \subseteq timers
              /\ SearchWork' < SearchWork
       /\ ForecastFails => Len(fetches') < Len(fetches)
       /\ ReverseFails =>
              /\ ReverseWork' < ReverseWork
              /\ Len(fetches') <= Len(fetches)
       /\ (Outstanding = 0 /\ inputs' = inputs) => Outstanding' = 0]_vars

C14_Witness ==
    /\ Outstanding = 0
    /\ error \in NetworkFailureMessages
    /\ inputs < MaxInputs
    /\ mounted

----------------------------------------------------------------------------
SearchFailureMessages ==
    {"Location search failed", "Failed to search locations. Please try again."}

\* a debounce callback runs while the geocoding key is not configured
KeylessSearch ==
    /\ ~apiKey
    /\ \E t \in timers : WeatherPageSearchStart(t) \/ AppSearchStart(t)

(* C15: with the geocoding API key missing, a search reports an error that *)
(* is not the one reported when the autocomplete request fails, and sends  *)
(* no autocomplete request.                                                *)
C15_MissingKeyReportedDistinctly ==
    [][KeylessSearch =>
          /\ error' # ""
          /\ error' \notin SearchFailureMessages
          /\ Len(searches') <= Len(searches)]_vars

----------------------------------------------------------------------------
(* formatDisplayName (part_000) on its own: the argument is drawn from the *)
(* location records below, one call is made.                               *)

AddressFields == {"city", "town", "village", "state", "country"}
FieldText ==
    [city |-> <<"P">>, town |-> <<"T">>, village |-> <<"V">>,
     state |-> <<"I", "d", "F">>, country |-> FR]

\* location records: every choice of address fields, and no address at all
FormatArgs ==
    LET base(d) == [display_name |-> d, lat |-> <<"4", "9">>, lon |-> <<"2">>]
        with(d, F) == [display_name |-> d, lat |-> <<"4", "9">>, lon |-> <<"2">>,
                       address |-> [f \in F |-> FieldText[f]]]
    IN UNION { {base(d)} \cup {with(d, F) : F \in SUBSET AddressFields}
             : d \in {UlmDE, YFR} }

FormatInit ==
    /\ Mount
    /\ draft = "Suggestions"
    /\ arg \in FormatArgs
    /\ result = NULL

FormatCall ==
    /\ result = NULL
    /\ result' = FormatDisplayNameResult(arg)
    /\ UNCHANGED <<hostVars, mounted, arg, query, error, timerVars, searchVars,
                   forecastVars, geoVars, inputs>>

FormatNext == FormatCall

FormatSpec == FormatInit /\ [][FormatNext]_vars

\* the label the claim describes for a location record
ClaimedDisplayName(loc) ==
    LET a == IF "address" \in DOMAIN loc THEN loc.address ELSE << >>
        place == OrElse(Field(a, "city"), OrElse(Field(a, "town"), Field(a, "village")))
        parts == SelectSeq(<<place, Field(a, "state"), Field(a, "country")>>,
                           LAMBDA x : x # <<>>)
    IN IF parts = <<>> THEN loc.display_name ELSE Join(parts)

(* C16: formatDisplayName returns, for every location record, the first    *)
(* present of city, town, village followed by state and country (each only *)
(* if present) joined with ", ", and the raw display_name when the address *)
(* is absent or yields no field.                                           *)
C16_DisplayNameFormat ==
    result # NULL =>
        result = [kind |-> "return", value |-> ClaimedDisplayName(arg)]

----------------------------------------------------------------------------
(* The weather-code classifier on its own: getWeatherEmoji of WeatherPage  *)
(* and App, getWeatherIcon of part_000.  Glyphs are written by name; the   *)
(* text-presentation glyphs of part_000 (no variation selector) are        *)
(* glyphs of their own.                                                    *)

\* the codes tried: NegCodes codes below zero, and zero up to MaxCode
NegCodes == 3
MaxCode == 102
Codes == (0 - NegCodes)..MaxCode

\* the table whose keys are `codes`, all mapped to `glyph`
Entries(codes, glyph) == [c \in codes |-> glyph]

WeatherPageMap ==
    (0 :> "sun") @@ (1 :> "sun behind small cloud") @@ (2 :> "sun behind cloud")
    @@ (3 :> "cloud")
    @@ Entries({45, 48}, "fog")
    @@ Entries({51, 53, 55}, "sun behind rain cloud")
    @@ Entries({61, 63, 65}, "rain cloud")
    @@ Entries({71, 73, 75}, "snowflake")
    @@ Entries({95, 96, 99}, "thunder cloud and rain")

AppMap ==
    (0 :> "sun") @@ (1 :> "sun behind small cloud") @@ (2 :> "sun behind cloud")
    @@ (3 :> "cloud")
    @@ Entries({45, 48}, "fog")
    @@ Entries({51, 53, 55}, "sun behind rain cloud")
    @@ Entries({56, 57}, "rain cloud")
    @@ Entries({61, 63, 65}, "rain cloud")
    @@ Entries({66, 67}, "snow cloud")
    @@ Entries({71, 73, 75, 77}, "snow cloud")
    @@ Entries({80, 81, 82}, "sun behind rain cloud")
    @@ Entries({85, 86}, "snow cloud")
    @@ Entries({95, 96, 99}, "thunder cloud and rain")

SuggestionsMap ==
    (0 :> "sun") @@ (1 :> "sun behind small cloud") @@ (2 :> "sun behind cloud")
    @@ (3 :> "cloud")
    @@ Entries({45, 48}, "fog (text)")
    @@ Entries({51, 53}, "sun behind rain cloud (text)")
    @@ (55 :> "rain cloud (text)")
    @@ Entries({61, 63, 65}, "rain cloud (text)")
    @@ Entries({71, 73, 75}, "snowflake")
    @@ Entries({95, 96, 99}, "thunder cloud and rain (text)")

WeatherMap(d) ==
    CASE d = "WeatherPage" -> WeatherPageMap
      [] d = "App" -> AppMap
      [] d = "Suggestions" -> SuggestionsMap

DefaultGlyph == "sun behind small cloud"

\* map[code]: undefined, written "", for a key the table does not have
Lookup(map, code) == IF code \in DOMAIN map THEN map[code] ELSE ""

\* getWeatherEmoji with `return map[code]`, without the default
GetWeatherEmojiNoDefault(d, code) == Lookup(WeatherMap(d), code)

\* return map[code] || default: the default replaces a falsy lookup
GetWeatherEmoji(d, code) ==
    IF Lookup(WeatherMap(d), code) # "" THEN Lookup(WeatherMap(d), code)
    ELSE DefaultGlyph

ClassifierInit ==
    /\ Mount
    /\ arg \in [kind : {"number"}, value : Codes]
    /\ result = NULL

\* a render calls the classifier with the code
ClassifierCall ==
    /\ result' = [kind |-> "return", value |-> GetWeatherEmoji(draft, arg.value)]
    /\ UNCHANGED <<hostVars, mounted, arg, query, error, timerVars, searchVars,
                   forecastVars, geoVars, inputs>>

ClassifierNext == ClassifierCall

ClassifierSpec == ClassifierInit /\ [][ClassifierNext]_vars

(* C17: the classifier is total and deterministic: for every integer code  *)
(* a call returns a glyph (never undefined), which is the table's glyph    *)
(* for a code of the table and the default glyph for any other code, and   *)
(* a further call with the same code returns the same glyph.               *)
C17_ClassifierTotal ==
    [][/\ result'.kind = "return"
       /\ result'.value # ""
       /\ arg.value \in DOMAIN WeatherMap(draft) =>
              result'.value = WeatherMap(draft)[arg.value]
       /\ arg.value \notin DOMAIN WeatherMap(draft) =>
              result'.value = DefaultGlyph
       /\ result # NULL => result' = result]_vars

C17_Witness ==
    /\ result # NULL
    /\ arg.kind = "number"
    /\ arg.value \notin DOMAIN WeatherMap(draft)
    /\ arg.value < 0

----------------------------------------------------------------------------
ReverseFailureMessages ==
    {"Could not detect city name",
     "Failed to get location name. Please try searching manually."}

(* C18: on the use-my-location path the reverse lookup comes before the    *)
(* forecast.  A forecast request that no user input issues is issued only  *)
(* by the step in which the reverse lookup succeeds; obtaining the         *)
(* position issues the reverse request and no forecast; and when the       *)
(* reverse lookup fails, an error is set, geoLoading is cleared and no     *)
(* forecast request is issued.                                             *)
C18_ReverseBeforeForecast ==
    [][/\ (Len(fetches') > Len(fetches) /\ inputs' = inputs) =>
              /\ geo = "reverse"
              /\ \E data \in ReverseAnswers : ReverseSucceeds(data)
       /\ (WeatherPagePositionFound \/ AppPositionFound) =>
              Len(fetches') <= Len(fetches)
       /\ ReverseFails =>
              /\ error' \in ReverseFailureMessages
              /\ ~geoLoading'
              /\ Len(fetches') <= Len(fetches)]_vars

C18_Witness ==
    /\ error \in ReverseFailureMessages
    /\ geoSupported
    /\ ~geoLoading
    /\ geo = "idle"
    /\ fetches = <<>>
    /\ weather = NULL

----------------------------------------------------------------------------
\* the label a forecast fetch for the given coordinates is started with: the
\* display_name (WeatherPage, App) or the record (part_000) of the suggestion
\* at those coordinates, or the display_name of the reverse answer for the
\* position fix
LabelsAt(lat, lon) ==
    { IF draft = "Suggestions" THEN loc ELSE loc.display_name
        : loc \in { l \in {LocUlm, LocY} :
                       /\ NumToString(ParseFloat(l.lat)) = lat
                       /\ NumToString(ParseFloat(l.lon)) = lon } }
    \cup { data.display_name
             : data \in { d \in ReverseAnswers :
                            /\ draft # "Suggestions"
                            /\ NumToString(Position.latitude) = lat
                            /\ NumToString(Position.longitude) = lon } }

SelectedLabel == IF draft = "Suggestions" THEN selectedLocation ELSE selectedCity

(* C19: whenever a weather snapshot is displayed, the selected-location    *)
(* label is the label of the fetch that returned that snapshot, whatever   *)
(* the order in which overlapping fetches settle.                          *)
C19_SnapshotLabelConsistent ==
    (WeatherShown /\ weather.kind = "weather") =>
        SelectedLabel \in LabelsAt(weather.latitude, weather.longitude)

C19_Witness ==
    /\ WeatherShown
    /\ weather.kind = "weather"
    /\ fetches # <<>>
    /\ fetches[1].label # SelectedLabel

----------------------------------------------------------------------------
\* the user selects a suggestion
Selects ==
    \E loc \in {LocUlm, LocY} :
        WeatherPageSelect(loc) \/ AppSelect(loc) \/ SuggestionsSelect(loc)

\* a forecast request settles
ForecastSettles ==
    \E i \in DOMAIN fetches, o \in HttpOutcomes :
        \/ WeatherPageFetchSettle(i, o)
        \/ AppFetchSettle(i, o)
        \/ SuggestionsFetchSettle(i, o)

(* C20: selecting a suggestion leads only to the Forecast Fetcher: neither *)
(* the selection, which rewrites the query text, nor the forecast result   *)
(* sets a debounce timer, so no autocomplete request follows from them     *)
(* and nothing reopens the dropdown the forecast result has hidden.        *)
C20_SelectionCausesNoSearch ==
    [][(Selects \/ ForecastSettles) => timers' \subseteq timers]_vars

----------------------------------------------------------------------------
ForecastFailureMessages ==
    {"Failed to load weather data",
     "Failed to fetch weather data. Please try again."}

(* C21: whenever no forecast fetch is outstanding, loading is false: each  *)
(* fetch ends by clearing it, on success and on failure, in whatever order *)
(* overlapping fetches settle.                                             *)
C21_LoadingClearedWhenSettled ==
    fetches = <<>> => ~loading

C21_Witness ==
    /\ fetches = <<>>
    /\ ~loading
    /\ weather.kind = "weather"
    /\ error \in ForecastFailureMessages

----------------------------------------------------------------------------
\* a debounce timer fires: its callback starts to run
TimerFires ==
    \E t \in timers :
        WeatherPageSearchStart(t) \/ AppSearchStart(t) \/ SuggestionsSearchStart(t)

\* an autocomplete response arrives
SearchSettles ==
    \E i \in DOMAIN searches, o \in HttpOutcomes :
        \/ WeatherPageSearchSettle(i, o)
        \/ AppSearchSettle(i, o)
        \/ SuggestionsSearchSettle(i, o)

(* C22: the error message of a failed forecast fetch stays until the next  *)
(* user action: neither a debounce timer firing nor an autocomplete        *)
(* response clears or replaces it.                                         *)
C22_ForecastErrorPersists ==
    [][(error \in ForecastFailureMessages /\ (TimerFires \/ SearchSettles)) =>
          error' = error]_vars

----------------------------------------------------------------------------
(* C23: at most one debounce timer is pending, after any sequence of query *)
(* updates (those that drop below the threshold and return above it        *)
(* included) and timer firings.                                            *)
C23_AtMostOneTimer ==
    Cardinality(timers) <= 1

C23_Witness ==
    /\ Cardinality(timers) = 1
    /\ ~BelowThreshold(query)
    /\ burst.updates >= 2
    /\ ~burst.allAbove

----------------------------------------------------------------------------
(* The use-my-location path under the assumption that the host calls one   *)
(* of the geolocation callbacks and that every HTTP request settles.       *)

\* the host calls the success or the error callback of getCurrentPosition
PositionAnswers ==
    \/ WeatherPagePositionFound
    \/ AppPositionFound
    \/ \E code \in PositionErrorCodes :
          WeatherPagePositionError(code) \/ AppPositionError(code)

\* the reverse lookup settles
ReverseSettles ==
    \E o \in HttpOutcomes, data \in ReverseAnswers :
        WeatherPageReverseSettle(o, data) \/ AppReverseSettle(o, data)

\* a pending callback of the use-my-location path or a pending forecast
\* response is eventually delivered
Delivers == PositionAnswers \/ ReverseSettles \/ ForecastSettles

LiveSpec == Spec /\ WF_vars(Delivers)

(* C24: geoLoading is true exactly while a use-my-location call is under   *)
(* way (from the click until the position callback has finished its work), *)
(* and every such call eventually leaves geoLoading false, whatever its    *)
(* outcome.                                                                *)
C24_GeoLoadingEventuallyCleared ==
    /\ [](geoLoading <=> geo # "idle")
    /\ geoLoading ~> ~geoLoading

C24_Witness ==
    /\ ~geoLoading
    /\ geo = "idle"
    /\ geoSupported
    /\ error = "Failed to fetch weather data. Please try again."
    /\ query = Ulm
    /\ inputs = 1
    /\ fetches = <<>>

====
